---- MODULE Spec2Model ----
(***************************************************************************)
(* A model of social-media-leak-monitor: the CLI entry point (main), the   *)
(* Monitor class (start / stop / check / fetchPosts / analyzePost / alert), *)
(* the scanner (detectCredentials, scanForDomains) and the domain           *)
(* validation of config.js.                                                 *)
(*                                                                         *)
(* JavaScript strings are sequences of one-character strings, so that the  *)
(* regular expressions of the source are computed character by character.  *)
(***************************************************************************)
EXTENDS Naturals, Integers, Sequences, FiniteSets, TLC

VARIABLES
    argv,       \* the parsed command line: [domains, interval, once]
    mainPc,     \* main(): "begin", "running" (monitor.start() called), "exited"
    exitCode,   \* -1 while the process has not called process.exit
    monitor,    \* the fields of the Monitor object
    timers,     \* the armed setInterval timers: a set of [id, delay]
    timersMade, \* how many timers setInterval has created so far
    starts,     \* the invocations of start(): a sequence of coroutines
    checks,     \* the invocations of check(): a sequence of coroutines
    alerts,     \* the Findings printed by alert(), in order
    vIn,        \* config.js on its own: the argument of validateDomains
    vOut,       \* config.js on its own: what validateDomains returned
    vPc         \* config.js on its own: "call", "done"; "idle" when not called

vars == <<argv, mainPc, exitCode, monitor, timers, timersMade, starts, checks,
          alerts, vIn, vOut, vPc>>

monitorVars == <<argv, mainPc, exitCode, monitor, timers, timersMade, starts,
                 checks, alerts>>

validateVars == <<vIn, vOut, vPc>>

----------------------------------------------------------------------------
(* Characters and strings *)

UpperLetters == <<"A", "B", "C", "D", "E", "F", "G", "H", "I", "J", "K", "L", "M",
                  "N", "O", "P", "Q", "R", "S", "T", "U", "V", "W", "X", "Y", "Z">>

LowerLetters == <<"a", "b", "c", "d", "e", "f", "g", "h", "i", "j", "k", "l", "m",
                  "n", "o", "p", "q", "r", "s", "t", "u", "v", "w", "x", "y", "z">>

DigitChars == <<"0", "1", "2", "3", "4", "5", "6", "7", "8", "9">>

Range(s) == {s[i] : i \in 1..Len(s)}

IsUpper(c) == c \in Range(UpperLetters)

IsLetter(c) == c \in Range(UpperLetters) \cup Range(LowerLetters)

IsDigit(c) == c \in Range(DigitChars)

IsAlnum(c) == IsLetter(c) \/ IsDigit(c)

\* \s of a JavaScript regular expression, over the characters the inputs use
IsSpace(c) == c \in {" ", "\t", "\n", "\r"}

\* String.prototype.toLowerCase, one character
LowerChar(c) ==
    IF IsUpper(c)
    THEN LowerLetters[CHOOSE i \in 1..26 : UpperLetters[i] = c]
    ELSE c

ToLowerCase(s) == [i \in 1..Len(s) |-> LowerChar(s[i])]

\* String.prototype.substring(from - 1, to) for 1 <= from
Substring(s, from, to) ==
    SubSeq(s, from, IF to > Len(s) THEN Len(s) ELSE to)

\* pattern p occurs in s at position i (1-based)
OccursAt(s, p, i) ==
    /\ i >= 1
    /\ i + Len(p) - 1 <= Len(s)
    /\ \A k \in 1..Len(p) : s[i + k - 1] = p[k]

StartsWith(s, p) == OccursAt(s, p, 1)

\* the first position of character c in s, 0 when it does not occur
IndexOf(s, c) ==
    IF \E i \in 1..Len(s) : s[i] = c
    THEN CHOOSE i \in 1..Len(s) : s[i] = c /\ \A j \in 1..(i - 1) : s[j] # c
    ELSE 0

\* String.prototype.split(sep) for a one-character separator
RECURSIVE Split(_, _)
Split(s, sep) ==
    LET i == IndexOf(s, sep) IN
    IF i = 0
    THEN <<s>>
    ELSE <<SubSeq(s, 1, i - 1)>> \o Split(SubSeq(s, i + 1, Len(s)), sep)

\* String.prototype.trim
RECURSIVE TrimStart(_)
TrimStart(s) ==
    IF s # <<>> /\ IsSpace(s[1]) THEN TrimStart(Tail(s)) ELSE s

RECURSIVE TrimEnd(_)
TrimEnd(s) ==
    IF s # <<>> /\ IsSpace(s[Len(s)]) THEN TrimEnd(SubSeq(s, 1, Len(s) - 1)) ELSE s

Trim(s) == TrimEnd(TrimStart(s))

----------------------------------------------------------------------------
(* config.js: validateDomains and isValidDomain *)

HttpPrefix == <<"h", "t", "t", "p", ":", "/", "/">>

HttpsPrefix == <<"h", "t", "t", "p", "s", ":", "/", "/">>

\* the {0,61} of domainRegex: a label holds at most 61 characters between its
\* first and its last
LabelInnerMax == 61

\* [a-zA-Z0-9]([a-zA-Z0-9-]{0,61}[a-zA-Z0-9])? : one label of domainRegex
IsLabel(l) ==
    /\ Len(l) >= 1
    /\ Len(l) <= LabelInnerMax + 2
    /\ IsAlnum(l[1])
    /\ IsAlnum(l[Len(l)])
    /\ \A i \in 1..Len(l) : IsAlnum(l[i]) \/ l[i] = "-"

\* [a-zA-Z]{2,} : the last label of domainRegex
IsTld(l) ==
    /\ Len(l) >= 2
    /\ \A i \in 1..Len(l) : IsLetter(l[i])

\* /^([a-zA-Z0-9]([a-zA-Z0-9-]{0,61}[a-zA-Z0-9])?\.)+[a-zA-Z]{2,}$/.test(domain):
\* neither a label nor the last label holds a dot, so the match is the split
\* of the string at its dots
isValidDomain(domain) ==
    LET parts == Split(domain, ".") IN
    /\ Len(parts) >= 2
    /\ \A i \in 1..(Len(parts) - 1) : IsLabel(parts[i])
    /\ IsTld(parts[Len(parts)])

\* d.replace(/^https?:\/\//, ''): the expression has no i flag
StripProtocol(d) ==
    IF StartsWith(d, HttpsPrefix) THEN SubSeq(d, Len(HttpsPrefix) + 1, Len(d))
    ELSE IF StartsWith(d, HttpPrefix) THEN SubSeq(d, Len(HttpPrefix) + 1, Len(d))
    ELSE d

\* d.replace(/\/$/, '')
StripTrailingSlash(d) ==
    IF d # <<>> /\ d[Len(d)] = "/" THEN SubSeq(d, 1, Len(d) - 1) ELSE d

\* d.split('/')[0]
StripPath(d) == Split(d, "/")[1]

\* the .map callback of validateDomains
NormalizeDomain(d) ==
    ToLowerCase(StripPath(StripTrailingSlash(StripProtocol(d))))

\* the .filter callback of validateDomains
KeepDomain(d) == Len(d) > 0 /\ isValidDomain(d)

RECURSIVE FilterDomains(_)
FilterDomains(ds) ==
    IF ds = <<>>
    THEN <<>>
    ELSE (IF KeepDomain(Head(ds)) THEN <<Head(ds)>> ELSE <<>>)
         \o FilterDomains(Tail(ds))

validateDomains(domains) ==
    FilterDomains([i \in 1..Len(domains) |-> NormalizeDomain(domains[i])])

\* options.domains.split(',').map(d => d.trim()), or the domains of the
\* default configuration when --domains is not given
ArgDomains(a) ==
    IF a.domains # <<>>
    THEN LET parts == Split(a.domains, ",")
         IN  [i \in 1..Len(parts) |-> Trim(parts[i])]
    ELSE <<>>

----------------------------------------------------------------------------
(* Bounds and the inputs the model draws from *)

\* how many times start() is called on the Monitor: once by main, the rest
\* by a program that holds the exported class
MaxStarts == 2

\* how many check cycles begin
MaxChecks == 3

\* the values of --domains: one domain, and a value with no valid domain
DomainArgs == {
    <<"a", ".", "i", "o">>,
    <<"n", "o", "t", " ", "a", " ", "d", "o", "m", "a", "i", "n">>
}

\* the values of --domains of a single-shot run: those, and two domains, one
\* of them with a scheme, upper case and a trailing slash
OnceDomainArgs ==
    DomainArgs \cup {<<"h", "t", "t", "p", ":", "/", "/", "A", ".", "i", "o", "/",
                       ",", " ", "b", ".", "c", "o">>}

\* the values of --interval: a number of minutes, and two values that are no
\* positive number
IntervalArgs == {<<"5">>, <<"a", "b", "c">>, <<"-", "5">>}

\* the values of --interval of a single-shot run: those, the default and zero
OnceIntervalArgs == IntervalArgs \cup {<<"3", "0">>, <<"0">>}

\* the elements a fetched page holds
LeakElement ==
    [text |-> <<"p", "w", "d", "=", "a", "b", "c", "d", " ", "a", ".", "i", "o">>,
     href |-> <<"/", "r", "/", "x">>]

MentionElement ==
    [text |-> <<"s", "e", "e", " ", "A", ".", "I", "O">>,
     href |-> <<"h", "t", "t", "p", ":", "/", "/", "h", "/", "r", "/", "y">>]

CredentialElement ==
    [text |-> <<"p", "w", "d", "=", "a", "b", "c", "d">>, href |-> <<>>]

EmailElement ==
    [text |-> <<"u", "@", "b", ".", "c", "o", ":", "h", "u", "n", "t", "e", "r", "2">>,
     href |-> <<"/", "r", "/", "z">>]

EmptyElement == [text |-> <<>>, href |-> <<"/", "r", "/", "e">>]

\* the page a request is answered with: one post that leaks a credential
LeakPage == <<LeakElement>>

\* the page a request of a single-shot run is answered with: every kind of
\* element
FullPage ==
    <<LeakElement, MentionElement, EmptyElement, CredentialElement, EmailElement>>

\* how the awaited axios.get, or the parsing of its response, fails
FetchErrors == {"timeout", "network", "status", "parse"}

\* what one request of fetchPosts ends with: one of the errors, or one of
\* the pages docs
OutcomesOf(errors, docs) ==
    {[error |-> e, doc |-> <<>>] : e \in errors}
    \cup {[error |-> "none", doc |-> d] : d \in docs}

Outcomes == OutcomesOf({"timeout"}, {LeakPage})

OnceOutcomes == OutcomesOf(FetchErrors, {LeakPage, FullPage})

\* the domains main can hand to the Monitor
KnownDomains ==
    UNION {Range(validateDomains(ArgDomains([domains |-> d]))) :
               d \in OnceDomainArgs}

\* the texts a post of the model can hold
KnownTexts ==
    UNION {{doc[i].text : i \in 1..Len(doc)} : doc \in {LeakPage, FullPage}}

----------------------------------------------------------------------------
(* Regular expressions: the expressions of scanner.js as syntax trees, and   *)
(* RegExp.prototype.test as the set of positions a match can end at.         *)

LowerSet == Range(LowerLetters)

UpperSet == Range(UpperLetters)

DigitSet == Range(DigitChars)

\* \s
SpaceSet == {" ", "\t", "\n", "\r"}

\* the max of {n,}, which has no upper bound: no count of repetitions reaches it
Unbounded == 0 - 1

\* [...]
Cls(S) == [op |-> "cls", set |-> S, neg |-> FALSE]

\* [^...]
NotCls(S) == [op |-> "cls", set |-> S, neg |-> TRUE]

\* . matches every character but a line terminator
AnyChar == NotCls({"\n", "\r"})

\* a run of literal characters
Lit(str) == [op |-> "lit", str |-> str]

\* concatenation
Cat(parts) == [op |-> "cat", parts |-> parts]

\* a|b|...
Alt(parts) == [op |-> "alt", parts |-> parts]

\* x{min,max}; x? is {0,1}, x* is {0,}, x+ is {1,}
Rep(of, min, max) == [op |-> "rep", of |-> of, min |-> min, max |-> max]

UpperChar(c) ==
    IF c \in LowerSet
    THEN UpperLetters[CHOOSE i \in 1..26 : LowerLetters[i] = c]
    ELSE c

\* character c is in the set of a class; under the i flag in either case
InClass(c, S, ignoreCase) ==
    \/ c \in S
    \/ ignoreCase /\ (LowerChar(c) \in S \/ UpperChar(c) \in S)

\* the literal str occurs in s at position i; under the i flag in either case
LitAt(s, str, i, ignoreCase) ==
    IF ignoreCase
    THEN OccursAt(ToLowerCase(s), ToLowerCase(str), i)
    ELSE OccursAt(s, str, i)

RECURSIVE Ends(_, _, _, _)
RECURSIVE CatEnds(_, _, _, _, _)
RECURSIVE RepEnds(_, _, _, _, _)

\* the positions a match of re can end at (the position after its last
\* character), over the matches that begin at a position of P
Ends(re, s, P, ignoreCase) ==
    CASE re.op = "cls" ->
           {p + 1 : p \in {q \in P : /\ q <= Len(s)
                                     /\ InClass(s[q], re.set, ignoreCase) # re.neg}}
      [] re.op = "lit" ->
           {p + Len(re.str) : p \in {q \in P : LitAt(s, re.str, q, ignoreCase)}}
      [] re.op = "cat" -> CatEnds(re.parts, 1, s, P, ignoreCase)
      [] re.op = "alt" ->
           UNION {Ends(re.parts[k], s, P, ignoreCase) : k \in 1..Len(re.parts)}
      [] re.op = "rep" -> RepEnds(re, 0, s, P, ignoreCase)

\* the parts k.. of a concatenation, one after the other
CatEnds(parts, k, s, P, ignoreCase) ==
    IF k > Len(parts) \/ P = {}
    THEN P
    ELSE CatEnds(parts, k + 1, s, Ends(parts[k], s, P, ignoreCase), ignoreCase)

\* P holds the positions reached after k repetitions
RepEnds(re, k, s, P, ignoreCase) ==
    IF P = {}
    THEN {}
    ELSE (IF k >= re.min THEN P ELSE {})
         \cup (IF (re.max >= 0 /\ k >= re.max) \/ k > Len(s)
               THEN {}
               ELSE RepEnds(re, k + 1, s, Ends(re.of, s, P, ignoreCase), ignoreCase))

\* regex.test(s) of a fresh RegExp: a match may begin anywhere
Test(re, s, ignoreCase) == Ends(re, s, 1..(Len(s) + 1), ignoreCase) # {}

----------------------------------------------------------------------------
(* scanner.js: CREDENTIAL_PATTERNS, detectCredentials, scanForDomains *)

\* /api[_-]?key["']?\s*[:=]\s*["']?([a-zA-Z0-9_]{16,})/gi
Pattern_api_key ==
    Cat(<<Lit(<<"a", "p", "i">>), Rep(Cls({"_", "-"}), 0, 1), Lit(<<"k", "e",
        "y">>), Rep(Cls({"\"", "'"}), 0, 1), Rep(Cls(SpaceSet), 0, Unbounded),
        Cls({":", "="}), Rep(Cls(SpaceSet), 0, Unbounded), Rep(Cls({"\"",
        "'"}), 0, 1), Rep(Cls(LowerSet \cup UpperSet \cup DigitSet \cup
        {"_"}), 16, Unbounded)>>)

\* /aws[_-]?access[_-]?key[_-]?id["']?\s*[:=]\s*["']?([A-Z0-9]{20,})/gi
Pattern_aws_key ==
    Cat(<<Lit(<<"a", "w", "s">>), Rep(Cls({"_", "-"}), 0, 1), Lit(<<"a", "c",
        "c", "e", "s", "s">>), Rep(Cls({"_", "-"}), 0, 1), Lit(<<"k", "e",
        "y">>), Rep(Cls({"_", "-"}), 0, 1), Lit(<<"i", "d">>), Rep(Cls({"\"",
        "'"}), 0, 1), Rep(Cls(SpaceSet), 0, Unbounded), Cls({":", "="}),
        Rep(Cls(SpaceSet), 0, Unbounded), Rep(Cls({"\"", "'"}), 0, 1),
        Rep(Cls(UpperSet \cup DigitSet), 20, Unbounded)>>)

\* /(password|passwd|pwd|secret)["']?\s*[:=]\s*["']?([^\s'"]{4,})/gi
Pattern_password ==
    Cat(<<Alt(<<Lit(<<"p", "a", "s", "s", "w", "o", "r", "d">>), Lit(<<"p",
        "a", "s", "s", "w", "d">>), Lit(<<"p", "w", "d">>), Lit(<<"s", "e",
        "c", "r", "e", "t">>)>>), Rep(Cls({"\"", "'"}), 0, 1),
        Rep(Cls(SpaceSet), 0, Unbounded), Cls({":", "="}), Rep(Cls(SpaceSet),
        0, Unbounded), Rep(Cls({"\"", "'"}), 0, 1), Rep(NotCls(SpaceSet \cup
        {"'", "\""}), 4, Unbounded)>>)

\* /-----BEGIN.*PRIVATE KEY-----/g
Pattern_private_key ==
    Cat(<<Lit(<<"-", "-", "-", "-", "-", "B", "E", "G", "I", "N">>),
        Rep(AnyChar, 0, Unbounded), Lit(<<"P", "R", "I", "V", "A", "T", "E",
        " ", "K", "E", "Y", "-", "-", "-", "-", "-">>)>>)

\* /eyJ[a-zA-Z0-9_-]*\.eyJ[a-zA-Z0-9_-]*\.[a-zA-Z0-9_-]*/g
Pattern_jwt ==
    Cat(<<Lit(<<"e", "y", "J">>), Rep(Cls(LowerSet \cup UpperSet \cup DigitSet
        \cup {"_", "-"}), 0, Unbounded), Lit(<<".", "e", "y", "J">>),
        Rep(Cls(LowerSet \cup UpperSet \cup DigitSet \cup {"_", "-"}), 0,
        Unbounded), Lit(<<".">>), Rep(Cls(LowerSet \cup UpperSet \cup DigitSet
        \cup {"_", "-"}), 0, Unbounded)>>)

\* /gh[pousr]_[a-zA-Z0-9]{36,}/g
Pattern_github_token ==
    Cat(<<Lit(<<"g", "h">>), Cls({"p", "o", "u", "s", "r"}), Lit(<<"_">>),
        Rep(Cls(LowerSet \cup UpperSet \cup DigitSet), 36, Unbounded)>>)

\* /xox[baprs]-[0-9]{10,13}-[0-9]{10,13}[a-zA-Z0-9-]*/g
Pattern_slack_token ==
    Cat(<<Lit(<<"x", "o", "x">>), Cls({"b", "a", "p", "r", "s"}),
        Lit(<<"-">>), Rep(Cls(DigitSet), 10, 13), Lit(<<"-">>),
        Rep(Cls(DigitSet), 10, 13), Rep(Cls(LowerSet \cup UpperSet \cup
        DigitSet \cup {"-"}), 0, Unbounded)>>)

\* /(mongodb|mysql|postgres|postgresql|redis|amqp|jdbc):\/\/[^\s]+/gi
Pattern_connection_string ==
    Cat(<<Alt(<<Lit(<<"m", "o", "n", "g", "o", "d", "b">>), Lit(<<"m", "y",
        "s", "q", "l">>), Lit(<<"p", "o", "s", "t", "g", "r", "e", "s">>),
        Lit(<<"p", "o", "s", "t", "g", "r", "e", "s", "q", "l">>), Lit(<<"r",
        "e", "d", "i", "s">>), Lit(<<"a", "m", "q", "p">>), Lit(<<"j", "d",
        "b", "c">>)>>), Lit(<<":", "/", "/">>), Rep(NotCls(SpaceSet), 1,
        Unbounded)>>)

\* /[a-zA-Z0-9._%+-]+@[a-zA-Z0-9.-]+\.[a-zA-Z]{2,}:[^\s]+/g
Pattern_email_password ==
    Cat(<<Rep(Cls(LowerSet \cup UpperSet \cup DigitSet \cup {".", "_", "%",
        "+", "-"}), 1, Unbounded), Lit(<<"@">>), Rep(Cls(LowerSet \cup
        UpperSet \cup DigitSet \cup {".", "-"}), 1, Unbounded), Lit(<<".">>),
        Rep(Cls(LowerSet \cup UpperSet), 2, Unbounded), Lit(<<":">>),
        Rep(NotCls(SpaceSet), 1, Unbounded)>>)

\* /bearer\s+[a-zA-Z0-9_\-\.]+/gi
Pattern_bearer_token ==
    Cat(<<Lit(<<"b", "e", "a", "r", "e", "r">>), Rep(Cls(SpaceSet), 1,
        Unbounded), Rep(Cls(LowerSet \cup UpperSet \cup DigitSet \cup {"_",
        "-", "."}), 1, Unbounded)>>)

\* /basic\s+[a-zA-Z0-9+/=]+/gi
Pattern_basic_auth ==
    Cat(<<Lit(<<"b", "a", "s", "i", "c">>), Rep(Cls(SpaceSet), 1, Unbounded),
        Rep(Cls(LowerSet \cup UpperSet \cup DigitSet \cup {"+", "/", "="}), 1,
        Unbounded)>>)

\* /npm_[a-zA-Z0-9]{36}/g
Pattern_npm_token ==
    Cat(<<Lit(<<"n", "p", "m", "_">>), Rep(Cls(LowerSet \cup UpperSet \cup
        DigitSet), 36, 36)>>)

\* /(sk|pk)_(test|live)_[a-zA-Z0-9]{24,}/gi
Pattern_stripe_key ==
    Cat(<<Alt(<<Lit(<<"s", "k">>), Lit(<<"p", "k">>)>>), Lit(<<"_">>),
        Alt(<<Lit(<<"t", "e", "s", "t">>), Lit(<<"l", "i", "v", "e">>)>>),
        Lit(<<"_">>), Rep(Cls(LowerSet \cup UpperSet \cup DigitSet), 24,
        Unbounded)>>)

\* /SK[a-f0-9]{32}/g
Pattern_twilio_key ==
    Cat(<<Lit(<<"S", "K">>), Rep(Cls(DigitSet \cup {"a", "b", "c", "d", "e",
        "f"}), 32, 32)>>)

\* /SG\.[a-zA-Z0-9_-]{22}\.[a-zA-Z0-9_-]{43}/g
Pattern_sendgrid_key ==
    Cat(<<Lit(<<"S", "G", ".">>), Rep(Cls(LowerSet \cup UpperSet \cup DigitSet
        \cup {"_", "-"}), 22, 22), Lit(<<".">>), Rep(Cls(LowerSet \cup
        UpperSet \cup DigitSet \cup {"_", "-"}), 43, 43)>>)

\* /(token|auth|access[_-]?key)[_-]?secret["']?\s*[:=]\s*["']?([a-zA-Z0-9_]{20,})/gi
Pattern_generic_token ==
    Cat(<<Alt(<<Lit(<<"t", "o", "k", "e", "n">>), Lit(<<"a", "u", "t", "h">>),
        Cat(<<Lit(<<"a", "c", "c", "e", "s", "s">>), Rep(Cls({"_", "-"}), 0,
        1), Lit(<<"k", "e", "y">>)>>)>>), Rep(Cls({"_", "-"}), 0, 1),
        Lit(<<"s", "e", "c", "r", "e", "t">>), Rep(Cls({"\"", "'"}), 0, 1),
        Rep(Cls(SpaceSet), 0, Unbounded), Cls({":", "="}), Rep(Cls(SpaceSet),
        0, Unbounded), Rep(Cls({"\"", "'"}), 0, 1), Rep(Cls(LowerSet \cup
        UpperSet \cup DigitSet \cup {"_"}), 20, Unbounded)>>)

CREDENTIAL_PATTERNS == <<
    [name |-> "API Key", pattern |-> Pattern_api_key, ignoreCase |-> TRUE, type |-> "api_key"],
    [name |-> "AWS Access Key", pattern |-> Pattern_aws_key, ignoreCase |-> TRUE, type |-> "aws_key"],
    [name |-> "Password", pattern |-> Pattern_password, ignoreCase |-> TRUE, type |-> "password"],
    [name |-> "Private Key", pattern |-> Pattern_private_key, ignoreCase |-> FALSE, type |-> "private_key"],
    [name |-> "JWT Token", pattern |-> Pattern_jwt, ignoreCase |-> FALSE, type |-> "jwt"],
    [name |-> "GitHub Token", pattern |-> Pattern_github_token, ignoreCase |-> FALSE, type |-> "github_token"],
    [name |-> "Slack Token", pattern |-> Pattern_slack_token, ignoreCase |-> FALSE, type |-> "slack_token"],
    [name |-> "Database Connection String", pattern |-> Pattern_connection_string, ignoreCase |-> TRUE, type |-> "connection_string"],
    [name |-> "Email:Password", pattern |-> Pattern_email_password, ignoreCase |-> FALSE, type |-> "email_password"],
    [name |-> "Bearer Token", pattern |-> Pattern_bearer_token, ignoreCase |-> TRUE, type |-> "bearer_token"],
    [name |-> "Basic Auth", pattern |-> Pattern_basic_auth, ignoreCase |-> TRUE, type |-> "basic_auth"],
    [name |-> "NPM Token", pattern |-> Pattern_npm_token, ignoreCase |-> FALSE, type |-> "npm_token"],
    [name |-> "Stripe Key", pattern |-> Pattern_stripe_key, ignoreCase |-> TRUE, type |-> "stripe_key"],
    [name |-> "Twilio Key", pattern |-> Pattern_twilio_key, ignoreCase |-> FALSE, type |-> "twilio_key"],
    [name |-> "SendGrid Key", pattern |-> Pattern_sendgrid_key, ignoreCase |-> FALSE, type |-> "sendgrid_key"],
    [name |-> "Generic Token", pattern |-> Pattern_generic_token, ignoreCase |-> TRUE, type |-> "generic_token"]
>>

\* detectedTypes.add(cred.type) for the patterns k.. : a Set keeps the order
\* of insertion and no duplicate
RECURSIVE DetectFrom(_, _, _)
DetectFrom(content, k, detectedTypes) ==
    IF k > Len(CREDENTIAL_PATTERNS)
    THEN detectedTypes
    ELSE LET cred == CREDENTIAL_PATTERNS[k]
             hit == Test(cred.pattern, content, cred.ignoreCase)
         IN  DetectFrom(content, k + 1,
                 IF hit /\ cred.type \notin Range(detectedTypes)
                 THEN Append(detectedTypes, cred.type)
                 ELSE detectedTypes)

\* DetectFrom for the texts of the model, as a table that is computed once
DetectedTypes == [t \in KnownTexts |-> DetectFrom(t, 1, <<>>)]

\* content is a string here; !content is the empty string
detectCredentials(content) ==
    IF content = <<>> THEN <<>>
    ELSE IF content \in KnownTexts THEN DetectedTypes[content]
    ELSE DetectFrom(content, 1, <<>>)

\* the characters domain.replace(/[.*+?^${}()|[\]\\]/g, '\\$&') escapes
RegExpSpecials == {".", "*", "+", "?", "^", "$", "{", "}", "(", ")", "|", "[", "]", "\\"}

RECURSIVE EscapeRegExp(_)
EscapeRegExp(d) ==
    IF d = <<>>
    THEN <<>>
    ELSE (IF Head(d) \in RegExpSpecials THEN <<"\\", Head(d)>> ELSE <<Head(d)>>)
         \o EscapeRegExp(Tail(d))

\* new RegExp(source) of an escaped string: a backslash makes the character
\* after it literal, "." is any character, every other character the inputs
\* use stands for itself
RECURSIVE CompileParts(_)
CompileParts(source) ==
    IF source = <<>>
    THEN <<>>
    ELSE IF Head(source) = "\\" /\ Len(source) >= 2
         THEN <<Lit(<<source[2]>>)>> \o CompileParts(Tail(Tail(source)))
         ELSE IF Head(source) = "."
              THEN <<AnyChar>> \o CompileParts(Tail(source))
              ELSE <<Lit(<<Head(source)>>)>> \o CompileParts(Tail(source))

\* '[a-zA-Z0-9._%+-]+@' of emailRegex
EmailLocalPart ==
    <<Rep(Cls(LowerSet \cup UpperSet \cup DigitSet \cup {".", "_", "%", "+", "-"}),
          1, Unbounded),
      Lit(<<"@">>)>>

\* the body of the loop of scanForDomains for one domain
TestDomain(content, domain) ==
    LET escapedDomain == EscapeRegExp(domain)
        domainRegex == Cat(CompileParts(escapedDomain))
        emailRegex == Cat(EmailLocalPart \o CompileParts(escapedDomain))
    IN  Test(domainRegex, content, TRUE) \/ Test(emailRegex, content, TRUE)

\* TestDomain for the texts and the domains of the model, as a table that is
\* computed once
DomainTests ==
    [t \in KnownTexts |-> [d \in KnownDomains |-> TestDomain(t, d)]]

DomainMatches(content, domain) ==
    IF content \in KnownTexts /\ domain \in KnownDomains
    THEN DomainTests[content][domain]
    ELSE TestDomain(content, domain)

RECURSIVE ScanFrom(_, _, _)
ScanFrom(content, domains, matchedDomains) ==
    IF domains = <<>>
    THEN matchedDomains
    ELSE ScanFrom(content, Tail(domains),
             IF /\ DomainMatches(content, Head(domains))
                /\ Head(domains) \notin Range(matchedDomains)
             THEN Append(matchedDomains, Head(domains))
             ELSE matchedDomains)

scanForDomains(content, domains) ==
    IF content = <<>> \/ domains = <<>> THEN <<>> ELSE ScanFrom(content, domains, <<>>)

----------------------------------------------------------------------------
(* JavaScript numbers: an integer or NaN *)

Num(v) == [nan |-> FALSE, v |-> v]

NaN == [nan |-> TRUE, v |-> 0]

\* a * k
Times(a, k) == IF a.nan THEN NaN ELSE Num(a.v * k)

\* a number as the left operand of ||
Truthy(a) == ~a.nan /\ a.v # 0

HexLetters == <<"a", "b", "c", "d", "e", "f">>

IsHexDigit(c) == IsDigit(c) \/ LowerChar(c) \in Range(HexLetters)

DigitValue(c) ==
    IF IsDigit(c)
    THEN (CHOOSE i \in 1..10 : DigitChars[i] = c) - 1
    ELSE (CHOOSE i \in 1..6 : HexLetters[i] = LowerChar(c)) + 9

\* the value of the longest prefix of s made of digits of the radix, read
\* after acc; found tells whether a digit has been read
RECURSIVE ReadDigits(_, _, _, _)
ReadDigits(s, radix, acc, found) ==
    IF s # <<>> /\ (IF radix = 16 THEN IsHexDigit(s[1]) ELSE IsDigit(s[1]))
    THEN ReadDigits(Tail(s), radix, acc * radix + DigitValue(s[1]), TRUE)
    ELSE IF found THEN Num(acc) ELSE NaN

\* parseInt(str) with no radix: leading white space, a sign, then "0x" and
\* hexadecimal digits or decimal digits; NaN when no digit follows
parseInt(str) ==
    LET t == TrimStart(str)
        signed == t # <<>> /\ t[1] \in {"+", "-"}
        body == IF signed THEN Tail(t) ELSE t
        hex == Len(body) >= 2 /\ body[1] = "0" /\ body[2] \in {"x", "X"}
        n == IF hex
             THEN ReadDigits(Tail(Tail(body)), 16, 0, FALSE)
             ELSE ReadDigits(body, 10, 0, FALSE)
    IN  IF signed /\ t[1] = "-" THEN Times(n, 0 - 1) ELSE n

----------------------------------------------------------------------------
(* monitor.js: SOCIAL_SOURCES and the Monitor class *)

RedditUrl ==
    <<"h", "t", "t", "p", "s", ":", "/", "/", "w", "w", "w", ".", "r", "e", "d",
      "d", "i", "t", ".", "c", "o", "m", "/", "s", "e", "a", "r", "c", "h", "/",
      "?", "q", "=", "{", "d", "o", "m", "a", "i", "n", "}", "&", "s", "o", "r",
      "t", "=", "n", "e", "w">>

NitterUrl ==
    <<"h", "t", "t", "p", "s", ":", "/", "/", "n", "i", "t", "t", "e", "r", ".",
      "n", "e", "t", "/", "s", "e", "a", "r", "c", "h", "?", "f", "=", "t", "w",
      "e", "e", "t", "s", "&", "q", "=", "{", "d", "o", "m", "a", "i", "n", "}">>

SOCIAL_SOURCES == <<
    [name |-> "Reddit", url |-> RedditUrl, type |-> "search"],
    [name |-> "Twitter Search (Nitter)", url |-> NitterUrl, type |-> "html"]
>>

SourceNames == [i \in 1..Len(SOCIAL_SOURCES) |-> SOCIAL_SOURCES[i].name]

\* 30 * 60 * 1000, the interval the constructor falls back to
DefaultInterval == 30 * 60 * 1000

\* content.substring(0, 100) of a tweet
TitleMax == 100

\* content.substring(0, 200) of a Finding
SnippetMax == 200

\* the Monitor object after the constructor; verbose only selects what is
\* logged and is left out. intervalId = 0 is the field not yet assigned
NewMonitor(domains, options) ==
    [domains    |-> domains,
     interval   |-> IF Truthy(options.interval) THEN options.interval.v
                    ELSE DefaultInterval,
     once       |-> options.once,
     isRunning  |-> FALSE,
     lastCheck  |-> 0,
     findings   |-> <<>>,
     intervalId |-> 0]

\* the delay Node's setInterval runs with: a delay below 1 ms or above
\* 2^31 - 1 ms is replaced by 1 ms
TimerDelay(ms) == IF ms < 1 \/ ms > 2147483647 THEN 1 ELSE ms

\* String.prototype.replace(pattern, replacement) for a string pattern: the
\* first occurrence
ReplaceFirst(s, pattern, replacement) ==
    IF \E i \in 1..Len(s) : OccursAt(s, pattern, i)
    THEN LET i == CHOOSE i \in 1..Len(s) :
                      /\ OccursAt(s, pattern, i)
                      /\ \A j \in 1..(i - 1) : ~OccursAt(s, pattern, j)
         IN  SubSeq(s, 1, i - 1) \o replacement
             \o SubSeq(s, i + Len(pattern), Len(s))
    ELSE s

\* encodeURIComponent leaves the characters of a validated domain (letters,
\* digits, "-", ".") as they are and writes every other character of the
\* inputs used here as %XX
PercentCodes ==
    [c \in {" ", ":", "/", ","} |->
        CASE c = " " -> <<"%", "2", "0">>
          [] c = ":" -> <<"%", "3", "A">>
          [] c = "/" -> <<"%", "2", "F">>
          [] c = "," -> <<"%", "2", "C">>]

RECURSIVE encodeURIComponent(_)
encodeURIComponent(s) ==
    IF s = <<>>
    THEN <<>>
    ELSE (IF Head(s) \in DOMAIN PercentCodes THEN PercentCodes[Head(s)]
          ELSE <<Head(s)>>)
         \o encodeURIComponent(Tail(s))

\* source.url.replace('{domain}', encodeURIComponent(domain))
RequestUrl(source, domain) ==
    ReplaceFirst(source.url, <<"{", "d", "o", "m", "a", "i", "n", "}">>,
                 encodeURIComponent(domain))

\* the posts fetchPosts pushes for one parsed response. A document is the
\* sequence of its elements [text, href], href = <<>> when the element has
\* no link. 'search' takes the anchors whose href holds "/r/", 'html' every
\* tweet
RECURSIVE ParsePosts(_, _, _)
ParsePosts(source, domain, doc) ==
    IF doc = <<>>
    THEN <<>>
    ELSE LET el == Head(doc)
             rest == ParsePosts(source, domain, Tail(doc))
         IN  IF source.type = "search"
             THEN IF /\ Test(Lit(<<"/", "r", "/">>), el.href, FALSE)
                     /\ el.href # <<>>
                     /\ el.text # <<>>
                  THEN <<[title  |-> el.text,
                          url    |-> IF StartsWith(el.href, <<"h", "t", "t", "p">>)
                                     THEN el.href
                                     ELSE <<"h", "t", "t", "p", "s", ":", "/", "/",
                                            "w", "w", "w", ".", "r", "e", "d", "d",
                                            "i", "t", ".", "c", "o", "m">> \o el.href,
                          domain |-> domain]>> \o rest
                  ELSE rest
             ELSE IF source.type = "html"
             THEN IF el.text # <<>>
                  THEN <<[title  |-> Substring(el.text, 1, TitleMax),
                          url    |-> IF el.href # <<>> THEN el.href
                                     ELSE RequestUrl(source, domain),
                          domain |-> domain]>> \o rest
                  ELSE rest
             ELSE rest

\* a mutant of analyzePost: the Finding is made without looking for credentials
analyzePostDomainOnly(post, source, now) ==
    LET content == post.title
        domainMatches == scanForDomains(content, <<post.domain>>)
    IN  IF Len(domainMatches) > 0
        THEN <<[timestamp      |-> now,
                source         |-> source.name,
                title          |-> post.title,
                url            |-> post.url,
                matchedDomains |-> domainMatches,
                credentials    |-> detectCredentials(content),
                snippet        |-> Substring(content, 1, SnippetMax)]>>
        ELSE <<>>

\* analyzePost(post, source): the findings it returns; now is the reading of
\* the clock new Date() takes
analyzePost(post, source, now) ==
    LET content == post.title
        domainMatches == scanForDomains(content, <<post.domain>>)
    IN  IF Len(domainMatches) > 0
        THEN LET credentials == detectCredentials(content) IN
             IF Len(credentials) > 0
             THEN <<[timestamp      |-> now,
                     source         |-> source.name,
                     title          |-> post.title,
                     url            |-> post.url,
                     matchedDomains |-> domainMatches,
                     credentials    |-> credentials,
                     snippet        |-> Substring(content, 1, SnippetMax)]>>
             ELSE <<>>
        ELSE <<>>

----------------------------------------------------------------------------
(* check() and start() as coroutines. A coroutine runs until it awaits a   *)
(* request of axios; an await of a promise that is already settled (the      *)
(* return of fetchPosts, of analyzePost, of check) is a microtask, which    *)
(* Node runs before any timer, any response and any other caller: the steps *)
(* between two requests are one step of the model.                           *)

\* the state before new Monitor(...)
NoMonitor ==
    [domains |-> <<>>, interval |-> 0, once |-> FALSE, isRunning |-> FALSE,
     lastCheck |-> 0, findings |-> <<>>, intervalId |-> 0]

\* the body of the try block of check() up to the first await of a request:
\* fetchPosts is called for source c.src. main constructs the Monitor with at
\* least one domain
BeginFetch(c) ==
    [c EXCEPT !.visited = Append(@, SOCIAL_SOURCES[c.src].name),
              !.dom = 1,
              !.posts = <<>>,
              !.fetched = <<>>]

\* check() up to its first await. by: "start" or "tick". The fields visited,
\* errors and counterLines record what the cycle logged, raised the sources
\* an exception was raised in; returned and analysed record the last return of fetchPosts
\* and what the loop over its posts got from analyzePost
BeginCheck(by) ==
    BeginFetch([pc |-> "fetch", by |-> by, src |-> 1, dom |-> 1, posts |-> <<>>,
                fetched |-> <<>>, totalScanned |-> 0, threatsFound |-> 0,
                visited |-> <<>>, errors |-> <<>>, raised |-> <<>>,
                counterLines |-> <<>>, returned |-> <<>>, analysed |-> <<>>])

\* the last statement of check(): the counter line
Finish(c) ==
    [c EXCEPT !.pc = "done",
              !.posts = <<>>,
              !.fetched = <<>>,
              !.counterLines = Append(@, [scanned |-> c.totalScanned,
                                           threats |-> c.threatsFound])]

\* the next turn of  for (const source of SOCIAL_SOURCES)
NextSource(c) ==
    IF c.src < Len(SOCIAL_SOURCES)
    THEN BeginFetch([c EXCEPT !.src = @ + 1])
    ELSE Finish(c)

\* a mutant of FetchCaught: the handler forgets the posts collected so far
FetchCaughtDropsPosts(c) == [c EXCEPT !.posts = <<>>]

\* the catch block of fetchPosts: the error is logged when verbose, the
\* posts are kept
FetchCaught(c) == c

\* a mutant of Alerted: a Finding already printed is not printed again
AlertedOnce(printed, findings) ==
    printed \o SelectSeq(findings, LAMBDA f :
        \A i \in 1..Len(printed) :
            printed[i].title # f.title \/ printed[i].url # f.url)

\* alert(findings): what the console holds after it
Alerted(printed, findings) == printed \o findings

\* a mutant of CheckCaught: the error is thrown on and check() rejects
CheckCaughtRethrows(c) == [c EXCEPT !.pc = "rejected"]

\* the catch block of check(): the error is logged with the name of the
\* source, and the loop goes on
CheckCaught(c) ==
    NextSource([c EXCEPT !.errors = Append(@, SOCIAL_SOURCES[c.src].name)])

\* the loop  for (const post of posts)  from post k on, then the end of the
\* try block. st = [check, findings, alerts]: the cycle, this.findings and
\* the console. throwAt = k: an exception is raised in the try block while
\* post k is handled, before anything is pushed; throwAt = 0: none is
RECURSIVE AnalyseFrom(_, _, _, _)
AnalyseFrom(st, k, now, throwAt) ==
    LET c == st.check IN
    IF k > Len(c.posts)
    THEN [st EXCEPT !.check = NextSource(c)]
    ELSE IF k = throwAt
    THEN [st EXCEPT !.check = CheckCaught([c EXCEPT !.raised = Append(@, c.src)])]
    ELSE LET findings == analyzePost(c.posts[k], SOCIAL_SOURCES[c.src], now)
             seen == [c EXCEPT !.analysed =
                         Append(@, [post |-> c.posts[k], findings |-> findings])]
         IN  IF Len(findings) > 0
             THEN AnalyseFrom(
                      [check    |-> [seen EXCEPT !.threatsFound = @ + Len(findings)],
                       findings |-> st.findings \o findings,
                       alerts   |-> Alerted(st.alerts, findings)],
                      k + 1, now, throwAt)
             ELSE AnalyseFrom([st EXCEPT !.check = seen], k + 1, now, throwAt)

\* check() after  await this.fetchPosts(source)
AfterFetch(st, now, throwAt) ==
    LET c == st.check IN
    AnalyseFrom([st EXCEPT !.check =
                    [c EXCEPT !.totalScanned = @ + Len(c.posts),
                              !.returned = <<[src |-> c.src, fetched |-> c.fetched,
                                              posts |-> c.posts]>>,
                              !.analysed = <<>>]],
                1, now, throwAt)

\* one request of fetchPosts has ended with outcome o: the try block and
\* the catch block of the turn of  for (const domain of this.domains)
Turn(c, domains, o) ==
    IF o.error = "none"
    THEN [c EXCEPT !.posts = @ \o ParsePosts(SOCIAL_SOURCES[c.src],
                                              domains[c.dom], o.doc)]
    ELSE FetchCaught(c)

\* one request of fetchPosts has ended with outcome o: the turn of the loop,
\* then the next request, or the return of fetchPosts and what check() does
\* with the posts. fetched records what each request ended with
FetchSettled(st, domains, o, now, throwAt) ==
    LET c == st.check
        turn == Turn(c, domains, o)
        log == Append(c.fetched, [domain |-> domains[c.dom],
                                  ok |-> o.error = "none", doc |-> o.doc])
    IN  IF c.dom < Len(domains)
        THEN [st EXCEPT !.check = [turn EXCEPT !.dom = @ + 1, !.fetched = log]]
        ELSE AfterFetch([st EXCEPT !.check = [turn EXCEPT !.fetched = log]],
                        now, throwAt)

\* a mutant of StartContinue: the timer is armed in a single-shot run too
StartContinueArms(m, ts, made) ==
    [monitor |-> [m EXCEPT !.intervalId = made + 1],
     timers  |-> ts \cup {[id |-> made + 1, delay |-> TimerDelay(m.interval)]},
     made    |-> made + 1,
     summary |-> IF m.once THEN <<Len(m.findings)>> ELSE <<>>]

\* start() after  await this.check(): the summary of a single-shot run (its
\* line "Total findings"), or setInterval. made counts the timers created,
\* which numbers them
StartContinue(m, ts, made) ==
    IF m.once
    THEN [monitor |-> m, timers |-> ts, made |-> made,
          summary |-> <<Len(m.findings)>>]
    ELSE [monitor |-> [m EXCEPT !.intervalId = made + 1],
          timers  |-> ts \cup {[id |-> made + 1, delay |-> TimerDelay(m.interval)]},
          made    |-> made + 1,
          summary |-> <<>>]

\* stop(): what it leaves of the Monitor
Stopped(m) == [m EXCEPT !.isRunning = FALSE]

\* stop(): the timers still armed after clearInterval(this.intervalId)
Cleared(m, ts) ==
    IF m.intervalId # 0 THEN {t \in ts : t.id # m.intervalId} ELSE ts

----------------------------------------------------------------------------
(* The actions *)

\* start() up to its first await, on Monitor m
DoStart(m) ==
    /\ monitor' = [m EXCEPT !.isRunning = TRUE, !.lastCheck = Len(checks) + 1]
    /\ checks' = Append(checks, BeginCheck("start"))
    /\ starts' = Append(starts, [pc |-> "awaitCheck", check |-> Len(checks) + 1,
                                 summary |-> <<>>])

\* the options main hands to the constructor
MonitorOptions(a) ==
    [interval |-> Times(Times(parseInt(a.interval), 60), 1000), once |-> a.once]

\* main(): up to process.exit(1), or up to the first await of start()
Main ==
    /\ mainPc = "begin"
    /\ LET validDomains == validateDomains(ArgDomains(argv)) IN
       IF Len(validDomains) = 0
       THEN /\ mainPc' = "exited"
            /\ exitCode' = 1
            /\ UNCHANGED <<monitor, checks, starts>>
       ELSE /\ mainPc' = "running"
            /\ exitCode' = exitCode
            /\ DoStart(NewMonitor(validDomains, MonitorOptions(argv)))
    /\ UNCHANGED <<argv, timers, timersMade, alerts, validateVars>>

\* a further call of start() on the Monitor
Start ==
    /\ mainPc = "running"
    /\ Len(starts) < MaxStarts
    /\ Len(checks) < MaxChecks
    /\ DoStart(monitor)
    /\ UNCHANGED <<argv, mainPc, exitCode, timers, timersMade, alerts, validateVars>>

\* a call of stop() on the Monitor
Stop ==
    /\ mainPc = "running"
    /\ monitor' = Stopped(monitor)
    /\ timers' = Cleared(monitor, timers)
    /\ UNCHANGED <<argv, mainPc, exitCode, timersMade, starts, checks, alerts,
                   validateVars>>

\* timer t fires: the callback of setInterval calls check()
Tick(t) ==
    /\ mainPc = "running"
    /\ Len(checks) < MaxChecks
    /\ monitor' = [monitor EXCEPT !.lastCheck = Len(checks) + 1]
    /\ checks' = Append(checks, BeginCheck("tick"))
    /\ UNCHANGED <<argv, mainPc, exitCode, timers, timersMade, starts, alerts,
                   validateVars>>

\* check cycle c has run on to st.check. When that ends the cycle, the
\* start() that awaits it goes on
Resume(c, st) ==
    LET m == [monitor EXCEPT !.findings = st.findings]
        waiting == {s \in 1..Len(starts) :
                        starts[s].pc = "awaitCheck" /\ starts[s].check = c}
    IN  /\ checks' = [checks EXCEPT ![c] = st.check]
        /\ alerts' = st.alerts
        /\ IF st.check.pc = "done" /\ waiting # {}
           THEN LET s == CHOOSE s \in waiting : TRUE
                    r == StartContinue(m, timers, timersMade)
                IN  /\ monitor' = r.monitor
                    /\ timers' = r.timers
                    /\ timersMade' = r.made
                    /\ starts' = [starts EXCEPT ![s].pc = "done",
                                                ![s].summary = r.summary]
           ELSE /\ monitor' = m
                /\ UNCHANGED <<timers, timersMade, starts>>
        /\ UNCHANGED <<argv, mainPc, exitCode, validateVars>>

\* the request check cycle c waits for ends with outcome o, and the cycle
\* runs on to its next request or to its end
FetchSettle(c, o) ==
    /\ checks[c].pc = "fetch"
    /\ Resume(c, FetchSettled([check |-> checks[c], findings |-> monitor.findings,
                               alerts |-> alerts],
                              monitor.domains, o, Len(checks), 0))

\* the same, with an exception raised in the try block of check() while
\* post k of the posts fetchPosts returned is handled
FetchSettleThrows(c, o, k) ==
    /\ checks[c].pc = "fetch"
    /\ checks[c].dom = Len(monitor.domains)
    /\ LET st == FetchSettled([check |-> checks[c], findings |-> monitor.findings,
                               alerts |-> alerts],
                              monitor.domains, o, Len(checks), k)
       IN  /\ Len(st.check.raised) = Len(checks[c].raised) + 1
           /\ Resume(c, st)

\* nothing is left to run: no timer, no pending promise. Node ends the
\* process with code 0
ProcessEnd ==
    /\ mainPc = "running"
    /\ timers = {}
    /\ \A s \in 1..Len(starts) : starts[s].pc = "done"
    /\ \A c \in 1..Len(checks) : checks[c].pc = "done"
    /\ mainPc' = "exited"
    /\ exitCode' = 0
    /\ UNCHANGED <<argv, monitor, timers, timersMade, starts, checks, alerts,
                   validateVars>>

Init ==
    /\ argv \in [domains : DomainArgs, interval : IntervalArgs, once : BOOLEAN]
    /\ mainPc = "begin"
    /\ exitCode = 0 - 1
    /\ monitor = NoMonitor
    /\ timers = {}
    /\ timersMade = 0
    /\ starts = <<>>
    /\ checks = <<>>
    /\ alerts = <<>>
    /\ vIn = <<>>
    /\ vOut = <<>>
    /\ vPc = "idle"

Next ==
    \/ Main
    \/ Start
    \/ Stop
    \/ \E t \in timers : Tick(t)
    \/ \E c \in 1..Len(checks) : \E o \in Outcomes : FetchSettle(c, o)
    \/ \E c \in 1..Len(checks) : \E o \in Outcomes :
           \E k \in 1..Len(Turn(checks[c], monitor.domains, o).posts) :
               FetchSettleThrows(c, o, k)
    \/ ProcessEnd

Spec == Init /\ [][Next]_vars

----------------------------------------------------------------------------
(* The command line tool run with --once: main, one check cycle, the end of *)
(* the process. Nothing in index.js calls stop() or start() again, and no   *)
(* timer is armed to fire.                                                  *)

OnceInit ==
    /\ argv \in [domains : OnceDomainArgs, interval : OnceIntervalArgs,
                 once : {TRUE}]
    /\ mainPc = "begin"
    /\ exitCode = 0 - 1
    /\ monitor = NoMonitor
    /\ timers = {}
    /\ timersMade = 0
    /\ starts = <<>>
    /\ checks = <<>>
    /\ alerts = <<>>
    /\ vIn = <<>>
    /\ vOut = <<>>
    /\ vPc = "idle"

\* a pending request of some check cycle ends
Settle ==
    \/ \E c \in 1..Len(checks) : \E o \in OnceOutcomes : FetchSettle(c, o)
    \/ \E c \in 1..Len(checks) : \E o \in OnceOutcomes :
           \E k \in 1..Len(Turn(checks[c], monitor.domains, o).posts) :
               FetchSettleThrows(c, o, k)

OnceNext ==
    \/ Main
    \/ Settle
    \/ ProcessEnd

SpecOnce == OnceInit /\ [][OnceNext]_vars

----------------------------------------------------------------------------
(* validateDomains of config.js called on its own, on a list of one entry   *)

Schemes == {
    <<>>,
    HttpPrefix,
    HttpsPrefix,
    <<"H", "T", "T", "P", ":", "/", "/">>,
    <<"H", "T", "T", "P", "S", ":", "/", "/">>,
    <<"H", "t", "t", "p", "s", ":", "/", "/">>
}

Hosts == {
    <<"e", "x", "a", "m", "p", "l", "e", ".", "c", "o", "m">>,
    <<"E", "x", "a", "m", "p", "l", "e", ".", "C", "O", "M">>,
    <<"a", ".", "i", "o">>,
    <<"s", "u", "b", ".", "E", "x", "-", "1", ".", "o", "r", "g">>,
    <<"-", "x", ".", "c", "o", "m">>,
    <<"x", ".", "c">>,
    <<"l", "o", "c", "a", "l", "h", "o", "s", "t">>
}

Paths == {
    <<>>,
    <<"/">>,
    <<"/", "p", "a", "t", "h">>,
    <<"/", "a", "/", "b", "/">>
}

NotADomain == <<"n", "o", "t", " ", "a", " ", "d", "o", "m", "a", "i", "n">>

ValidateInputs ==
    {s \o h \o p : s \in Schemes, h \in Hosts, p \in Paths} \cup {NotADomain}

VInit ==
    /\ vIn \in {<<d>> : d \in ValidateInputs}
    /\ vOut = <<>>
    /\ vPc = "call"
    /\ argv = [domains |-> <<>>, interval |-> <<>>, once |-> FALSE]
    /\ mainPc = "begin"
    /\ exitCode = 0 - 1
    /\ monitor = NoMonitor
    /\ timers = {}
    /\ timersMade = 0
    /\ starts = <<>>
    /\ checks = <<>>
    /\ alerts = <<>>

\* validateDomains(vIn) returns
Validate ==
    /\ vPc = "call"
    /\ vOut' = validateDomains(vIn)
    /\ vPc' = "done"
    /\ UNCHANGED <<vIn, monitorVars>>

VNext == Validate

SpecValidate == VInit /\ [][VNext]_vars

----------------------------------------------------------------------------
(* The properties *)

\* the check cycles that have begun and have not printed their counter line
InFlight == {c \in 1..Len(checks) : checks[c].pc # "done"}

\* a is an initial part of b
IsPrefix(a, b) == Len(a) <= Len(b) /\ SubSeq(b, 1, Len(a)) = a

\* the threats counted by the first k check cycles
RECURSIVE ThreatsCounted(_)
ThreatsCounted(k) ==
    IF k = 0 THEN 0 ELSE checks[k].threatsFound + ThreatsCounted(k - 1)

\* the text holds the domain, in any letter case
MentionsDomain(text, domain) ==
    \E i \in 1..Len(text) : OccursAt(ToLowerCase(text), ToLowerCase(domain), i)

\* the text matches at least one of the credential patterns
CredentialHit ==
    [t \in KnownTexts |->
        \E i \in 1..Len(CREDENTIAL_PATTERNS) :
            Test(CREDENTIAL_PATTERNS[i].pattern, t, CREDENTIAL_PATTERNS[i].ignoreCase)]

\* the post leaks: its text holds its own domain and a credential
Leaks(post) ==
    MentionsDomain(post.title, post.domain) /\ CredentialHit[post.title]

\* the posts a loop over the requests of fetched collects for a source: those
\* of every request that succeeded, in order
RECURSIVE Collected(_, _)
Collected(source, fetched) ==
    IF fetched = <<>>
    THEN <<>>
    ELSE LET last == fetched[Len(fetched)] IN
         Collected(source, SubSeq(fetched, 1, Len(fetched) - 1))
         \o (IF last.ok THEN ParsePosts(source, last.domain, last.doc) ELSE <<>>)

\* the value of --interval does not parse to a positive number
MalformedInterval ==
    LET n == parseInt(argv.interval) IN n.nan \/ n.v <= 0

\* C1: after one call of start(), a timer tick never begins a check cycle
\* while a cycle begun earlier, by start() or by a tick, has not finished.
TickNeverOverlaps ==
    [][(/\ Len(starts) = 1
        /\ Len(checks') = Len(checks) + 1
        /\ checks'[Len(checks')].by = "tick") => InFlight = {}]_vars

\* C2: once stop() has been called on a Monitor that start() was called on
\* once, the running flag being false, no timer is armed: also when stop() was
\* called while the initial check cycle awaited its requests.
StoppedHasNoTimer ==
    (mainPc = "running" /\ Len(starts) = 1 /\ ~monitor.isRunning) => timers = {}

\* C3: in a single-shot run no timer is ever armed, every check cycle is the
\* one cycle of a call of start(), none is begun by a tick, and a start() that
\* has returned has ended its cycle and printed the summary.
SingleShotRunsOneCycle ==
    argv.once =>
        /\ timers = {}
        /\ timersMade = 0
        /\ Len(checks) = Len(starts)
        /\ \A s \in 1..Len(starts) :
               /\ starts[s].check = s
               /\ checks[s].by = "start"
               /\ starts[s].pc = "awaitCheck" => starts[s].summary = <<>>
               /\ starts[s].pc = "done" =>
                      /\ checks[s].pc = "done"
                      /\ Len(starts[s].summary) = 1
                      /\ starts[s].summary[1] <= Len(monitor.findings)

\* C3 witness: a single-shot run has ended with code 0 after one cycle that
\* found a leak at both sources, and its summary counted them.
SingleShotEnded ==
    /\ argv.once
    /\ mainPc = "exited"
    /\ exitCode = 0
    /\ Len(checks) = 1
    /\ starts[1].summary = <<2>>
    /\ Len(monitor.findings) = 2

\* C4: at no point, over any calls of start() and stop(), is more than one
\* timer armed for the Monitor.
AtMostOneTimer == Cardinality(timers) <= 1

\* C5: analyzePost returns a Finding for a post exactly when the text of the
\* post holds the post's own domain and matches a credential pattern; the
\* Finding names that domain alone and a non-empty list of credential types,
\* and so does every Finding of the accumulator.
FindingIffDomainAndCredential ==
    /\ \A c \in 1..Len(checks) : \A k \in 1..Len(checks[c].analysed) :
           LET a == checks[c].analysed[k] IN
           /\ Len(a.findings) = (IF Leaks(a.post) THEN 1 ELSE 0)
           /\ Leaks(a.post) =>
                  /\ a.findings[1].matchedDomains = <<a.post.domain>>
                  /\ a.findings[1].credentials # <<>>
                  /\ a.findings[1].title = a.post.title
    /\ \A i \in 1..Len(monitor.findings) :
           LET f == monitor.findings[i] IN
           /\ Len(f.matchedDomains) = 1
           /\ f.matchedDomains[1] \in Range(monitor.domains)
           /\ MentionsDomain(f.title, f.matchedDomains[1])
           /\ f.credentials # <<>>
           /\ CredentialHit[f.title]

\* C5 witness: one cycle has analysed a post that holds its domain and no
\* credential, a post that holds a credential and not its domain, both with no
\* Finding, and a post that holds both, with a Finding.
AnalysedEveryKind ==
    \E c \in 1..Len(checks) :
        LET an == checks[c].analysed IN
        /\ \E k \in 1..Len(an) :
               /\ MentionsDomain(an[k].post.title, an[k].post.domain)
               /\ ~CredentialHit[an[k].post.title]
               /\ an[k].findings = <<>>
        /\ \E k \in 1..Len(an) :
               /\ ~MentionsDomain(an[k].post.title, an[k].post.domain)
               /\ CredentialHit[an[k].post.title]
               /\ an[k].findings = <<>>
        /\ \E k \in 1..Len(an) :
               /\ Leaks(an[k].post)
               /\ Len(an[k].findings) = 1

\* C6: while fetchPosts runs it has made one request for each domain before
\* the current one and holds the posts of those that succeeded; when it
\* returns it has made a request for every configured domain, in order, and
\* returns the posts of those that succeeded, none when all failed; a failed
\* request raises nothing in check().
FetchPostsSurvivesFailures ==
    \A c \in 1..Len(checks) :
        LET ch == checks[c] IN
        /\ ch.pc = "fetch" =>
               /\ Len(ch.fetched) = ch.dom - 1
               /\ \A i \in 1..Len(ch.fetched) :
                      ch.fetched[i].domain = monitor.domains[i]
               /\ ch.posts = Collected(SOCIAL_SOURCES[ch.src], ch.fetched)
        /\ \A r \in 1..Len(ch.returned) :
               LET ret == ch.returned[r] IN
               /\ [i \in 1..Len(ret.fetched) |-> ret.fetched[i].domain]
                      = monitor.domains
               /\ ret.posts = Collected(SOCIAL_SOURCES[ret.src], ret.fetched)
               /\ (\A i \in 1..Len(ret.fetched) : ~ret.fetched[i].ok) =>
                      ret.posts = <<>>
        /\ Len(ch.errors) = Len(ch.raised)

\* C6 witness: fetchPosts has returned the posts of its first domain after
\* the request for its second domain failed.
ReturnedAfterFailure ==
    \E c \in 1..Len(checks) :
        /\ checks[c].returned # <<>>
        /\ LET ret == checks[c].returned[1] IN
           /\ Len(ret.fetched) = 2
           /\ ret.fetched[1].ok
           /\ ~ret.fetched[2].ok
           /\ ret.posts # <<>>

\* C7: a check cycle visits the sources in order and is never rejected: while
\* it runs it waits for one request of the source it visits and has printed no
\* counter line; an exception raised at a source is logged with the name of
\* that source; when it has ended it has visited every source and printed the
\* counter line once, with its counts.
EveryCycleEndsWithCounter ==
    \A c \in 1..Len(checks) :
        LET ch == checks[c] IN
        /\ ch.pc \in {"fetch", "done"}
        /\ ch.pc = "fetch" =>
               /\ ch.src \in 1..Len(SOCIAL_SOURCES)
               /\ ch.dom \in 1..Len(monitor.domains)
               /\ ch.visited = SubSeq(SourceNames, 1, ch.src)
               /\ ch.counterLines = <<>>
        /\ ch.pc = "done" =>
               /\ ch.visited = SourceNames
               /\ ch.counterLines = <<[scanned |-> ch.totalScanned,
                                       threats |-> ch.threatsFound]>>
        /\ ch.errors = [i \in 1..Len(ch.raised) |-> SourceNames[ch.raised[i]]]

\* C7 witness: a cycle has ended, with its counter line, after an exception
\* at its first source and the visit of the second.
CycleEndedAfterError ==
    \E c \in 1..Len(checks) :
        /\ checks[c].pc = "done"
        /\ checks[c].raised = <<1>>
        /\ checks[c].errors = <<SourceNames[1]>>
        /\ checks[c].visited = SourceNames
        /\ Len(checks[c].counterLines) = 1
        /\ checks[c].totalScanned > 0

\* C8: the alerts printed are the Findings of the accumulator, one for one and
\* in order, as many as the cycles counted; and no step removes or replaces a
\* Finding of the accumulator or an alert.
NoAlertSuppressed ==
    /\ [](/\ alerts = monitor.findings
          /\ ThreatsCounted(Len(checks)) = Len(monitor.findings))
    /\ [][/\ IsPrefix(monitor.findings, monitor.findings')
          /\ IsPrefix(alerts, alerts')]_vars

\* C8 witness: a post seen in two cycles has two Findings and two alerts,
\* equal but for their timestamps.
SamePostAlertedTwice ==
    \E i, j \in 1..Len(monitor.findings) :
        /\ i < j
        /\ monitor.findings[i].title = monitor.findings[j].title
        /\ monitor.findings[i].url = monitor.findings[j].url
        /\ monitor.findings[i].source = monitor.findings[j].source
        /\ monitor.findings[i].timestamp # monitor.findings[j].timestamp
        /\ alerts[i] = monitor.findings[i]
        /\ alerts[j] = monitor.findings[j]

\* C9: for an entry scheme://host/path whose host is a valid hostname, in any
\* letter case of scheme and host, validateDomains returns the lowercased
\* host, and it returns nothing for "not a domain".
NormalizesAnyCase ==
    vPc = "done" =>
        /\ \A sch \in Schemes \ {<<>>} : \A h \in Hosts : \A p \in Paths :
               (vIn = <<sch \o h \o p>> /\ isValidDomain(h)) =>
                   vOut = <<ToLowerCase(h)>>
        /\ vIn = <<NotADomain>> => vOut = <<>>

\* C10: when the value of --interval is malformed the process exits with
\* code 1, no check cycle is begun and no timer is armed.
MalformedIntervalExits ==
    (mainPc # "begin" /\ MalformedInterval) =>
        /\ exitCode = 1
        /\ checks = <<>>
        /\ timers = {}

====
